---- MODULE Spec2Model ----
(***************************************************************************)
(* A model of src/utils/index.ts of node-cli:                              *)
(*   - loading(): the retrying task runner around the module-level         *)
(*     retryCount (specification Spec);                                    *)
(*   - gt(): the dotted-version comparison (specification SpecGt);         *)
(*   - getNpmLatestVersion() and checkVersion() (specification SpecVer).   *)
(* Strings are sequences of one-character strings.  JavaScript numbers are *)
(* records [nan, val] so that NaN compares the way IEEE 754 says.          *)
(***************************************************************************)
EXTENDS Integers, Sequences, FiniteSets, TLC

\* ------------------------------------------------------------------ bounds
\* number of loading() runs (logical task invocations) a behaviour may start
MaxRuns == 2
\* largest options.maxRetries a run is started with
MaxRetriesBound == 2
\* cap on the module-level counter (never reached: see Settle)
MaxCount == 6

Runs == 1 .. MaxRuns

VARIABLES
  retryCount,  \* the module-level `let retryCount = 0`
  pc,          \* per run: "idle", "await_cb", "await_timer", "done"
  maxRetries,  \* per run: options.maxRetries of the run
  calls,       \* per run: number of cb(...args) invocations made so far
  hist,        \* per run: outcomes of the settled invocations, "ok" / "fail"
  inflight,    \* per run: invocations of cb not yet settled
  timers,      \* per run: retryDelay timers set and not yet fired
  fired,       \* per run: retryDelay timers that have fired
  spinner,     \* per run: the ora spinners its invocations created, in order
  handle,      \* per run: the `const spinner` of its current invocation
  result,      \* per run: what the promise of loading() settled with
  promise,     \* per run: "none", "pending", "resolved", "rejected"
  peers        \* per run: the runs that were in flight together with it

loadVars == << retryCount, pc, maxRetries, calls, hist, inflight, timers,
               fired, spinner, handle, result, promise, peers >>

VARIABLES
  gpc,    \* "idle" before the call of gt, "done" after it
  gv1,    \* the arguments of the call
  gv2,
  glen,
  gres    \* the value gt returned

gtVars == << gpc, gv1, gv2, glen, gres >>

VARIABLES
  vpc,            \* "idle", "await_get", "got", "done"
  pkgName,        \* argument name of checkVersion
  version,        \* argument version of checkVersion
  reply,          \* what the registry will answer
  requests,       \* the URLs requested with axios.get, in order
  warned,         \* number of warnings of getNpmLatestVersion
  lookup,         \* promise of getNpmLatestVersion: "none", "pending", ...
  latestVersion,  \* the value getNpmLatestVersion resolved with
  advisory,       \* number of update advisories printed
  vpromise        \* promise of checkVersion: "none", "pending", ...

verVars == << vpc, pkgName, version, reply, requests, warned, lookup,
              latestVersion, advisory, vpromise >>

VARIABLES
  bpc,    \* "idle" before the call of getDefaultBranch, "done" after it
  burl,   \* argument url
  bdef,   \* argument defBranch, passed or left out
  bres    \* the branch name returned

branchVars == << bpc, burl, bdef, bres >>

vars == << loadVars, gtVars, verVars, branchVars >>

\* ------------------------------------------------------------ result values
Pending == [kind |-> "pending", attempt |-> 0]
Undefined == [kind |-> "undefined", attempt |-> 0]
\* the value the n-th invocation of the callback resolved with
ValueOf(n) == [kind |-> "value", attempt |-> n]

\* spinner texts
Spinning == "spinning"
OkText == "okText"
RetryText == "Failure, reTrying..."
FailureText == "failureText"

Active(r) == pc[r] \in {"await_cb", "await_timer"}

\* ora({text, color}) followed by spinner.start(), in attempt n of run r:
\* a new spinner; `by` lists the attempts that marked it (succeed or fail)
NewSpinner(r, n) == [run |-> r, attempt |-> n, text |-> Spinning, by |-> << >>]

\* (mutant) one spinner for the whole module: every mark goes to the first
\* spinner of the lowest run that has one
MarkShared(r, text) ==
  LET o == CHOOSE q \in Runs :
             handle[q] > 0 /\ \A p \in Runs : handle[p] > 0 => q <= p
  IN [spinner EXCEPT ![o][1] = [@ EXCEPT !.text = text,
                                         !.by = Append(@, << r, calls[r] >>)]]

\* spinner.succeed(text) / spinner.fail(text) on the spinner the current
\* invocation of run r created
Mark(r, text) ==
  [spinner EXCEPT ![r][handle[r]] = [@ EXCEPT !.text = text,
                                            !.by = Append(@, << r, calls[r] >>)]]

InitLoading ==
  /\ retryCount = 0
  /\ pc = [r \in Runs |-> "idle"]
  /\ maxRetries = [r \in Runs |-> 0]
  /\ calls = [r \in Runs |-> 0]
  /\ hist = [r \in Runs |-> << >>]
  /\ inflight = [r \in Runs |-> 0]
  /\ timers = [r \in Runs |-> 0]
  /\ fired = [r \in Runs |-> 0]
  /\ spinner = [r \in Runs |-> << >>]
  /\ handle = [r \in Runs |-> 0]
  /\ result = [r \in Runs |-> Pending]
  /\ promise = [r \in Runs |-> "none"]
  /\ peers = [r \in Runs |-> {}]

\* A caller calls loading(options, ...args) with options.maxRetries = m: a
\* fresh spinner is started and cb is invoked; the function then suspends at
\* `await cb(...args)`.
Start(r, m) ==
  /\ pc[r] = "idle"
  /\ pc' = [pc EXCEPT ![r] = "await_cb"]
  /\ maxRetries' = [maxRetries EXCEPT ![r] = m]
  /\ promise' = [promise EXCEPT ![r] = "pending"]
  /\ spinner' = [spinner EXCEPT ![r] = Append(@, NewSpinner(r, calls[r] + 1))]
  /\ handle' = [handle EXCEPT ![r] = Len(spinner[r]) + 1]
  /\ calls' = [calls EXCEPT ![r] = @ + 1]
  /\ inflight' = [inflight EXCEPT ![r] = @ + 1]
  /\ peers' = [q \in Runs |->
                 IF q = r THEN {p \in Runs : Active(p)}
                 ELSE IF Active(q) THEN peers[q] \cup {r} ELSE peers[q]]
  /\ UNCHANGED << retryCount, hist, timers, fired, result >>
  /\ UNCHANGED << gtVars, verVars, branchVars >>

\* (mutant) a success resets the module-level counter
OnSuccessResets(r) ==
  /\ inflight' = [inflight EXCEPT ![r] = @ - 1]
  /\ spinner' = Mark(r, OkText)
  /\ result' = [result EXCEPT ![r] = ValueOf(calls[r])]
  /\ promise' = [promise EXCEPT ![r] = "resolved"]
  /\ pc' = [pc EXCEPT ![r] = "done"]
  /\ retryCount' = 0
  /\ UNCHANGED << timers, calls, handle >>

\* try branch: the awaited callback resolved.
OnSuccess(r) ==
  /\ inflight' = [inflight EXCEPT ![r] = @ - 1]
  /\ spinner' = Mark(r, OkText)
  /\ result' = [result EXCEPT ![r] = ValueOf(calls[r])]
  /\ promise' = [promise EXCEPT ![r] = "resolved"]
  /\ pc' = [pc EXCEPT ![r] = "done"]
  /\ UNCHANGED << retryCount, timers, calls, handle >>

\* (mutant) the retry re-invokes loading() without awaiting the delay
OnRetryNoAwait(r) ==
  /\ retryCount' = retryCount + 1
  /\ spinner' = [Mark(r, RetryText) EXCEPT
                   ![r] = Append(@, NewSpinner(r, calls[r] + 1))]
  /\ handle' = [handle EXCEPT ![r] = Len(spinner[r]) + 1]
  /\ timers' = [timers EXCEPT ![r] = @ + 1]
  /\ calls' = [calls EXCEPT ![r] = @ + 1]
  /\ UNCHANGED << inflight, pc, result, promise >>

\* catch branch, `retryCount <= maxRetries`: count, mark, set the timer and
\* suspend at `await new Promise(...)`.
OnRetry(r) ==
  /\ inflight' = [inflight EXCEPT ![r] = @ - 1]
  /\ retryCount' = retryCount + 1
  /\ spinner' = Mark(r, RetryText)
  /\ timers' = [timers EXCEPT ![r] = @ + 1]
  /\ pc' = [pc EXCEPT ![r] = "await_timer"]
  /\ UNCHANGED << result, promise, calls, handle >>

\* (mutant) the else branch rethrows the error instead of returning
OnGiveUpRethrow(r) ==
  /\ inflight' = [inflight EXCEPT ![r] = @ - 1]
  /\ spinner' = Mark(r, FailureText)
  /\ promise' = [promise EXCEPT ![r] = "rejected"]
  /\ pc' = [pc EXCEPT ![r] = "done"]
  /\ UNCHANGED << retryCount, timers, calls, handle, result >>

\* catch branch, else: mark the spinner failed and return (undefined).
OnGiveUp(r) ==
  /\ inflight' = [inflight EXCEPT ![r] = @ - 1]
  /\ spinner' = Mark(r, FailureText)
  /\ result' = [result EXCEPT ![r] = Undefined]
  /\ promise' = [promise EXCEPT ![r] = "resolved"]
  /\ pc' = [pc EXCEPT ![r] = "done"]
  /\ UNCHANGED << retryCount, timers, calls, handle >>

\* (mutant) the condition is always true: every failure is retried
MayRetryAlways(r) == TRUE

\* (mutant) the condition counts the retries of the run itself
MayRetryOwnCount(r) == fired[r] <= maxRetries[r]

\* the condition of the catch block
MayRetry(r) == retryCount <= maxRetries[r]

\* catch (e) { ... }
OnFailure(r) == IF MayRetry(r) THEN OnRetry(r) ELSE OnGiveUp(r)

\* The pending callback of run r settles: it resolves (ok) or it rejects or
\* throws (fail); loading() resumes after the await.
Settle(r, outcome) ==
  /\ pc[r] = "await_cb"
  /\ inflight[r] > 0
  /\ retryCount < MaxCount
  /\ hist' = [hist EXCEPT ![r] = Append(@, outcome)]
  /\ IF outcome = "ok" THEN OnSuccess(r) ELSE OnFailure(r)
  /\ UNCHANGED << maxRetries, fired, peers >>
  /\ UNCHANGED << gtVars, verVars, branchVars >>

\* The retryDelay timer of run r fires: `return loading(options, ...args)`
\* starts a fresh spinner and invokes cb again.
TimerFire(r) ==
  /\ pc[r] = "await_timer"
  /\ timers[r] > 0
  /\ pc' = [pc EXCEPT ![r] = "await_cb"]
  /\ timers' = [timers EXCEPT ![r] = @ - 1]
  /\ fired' = [fired EXCEPT ![r] = @ + 1]
  /\ spinner' = [spinner EXCEPT ![r] = Append(@, NewSpinner(r, calls[r] + 1))]
  /\ handle' = [handle EXCEPT ![r] = Len(spinner[r]) + 1]
  /\ calls' = [calls EXCEPT ![r] = @ + 1]
  /\ inflight' = [inflight EXCEPT ![r] = @ + 1]
  /\ UNCHANGED << retryCount, maxRetries, hist, result, promise, peers >>
  /\ UNCHANGED << gtVars, verVars, branchVars >>

NextLoading ==
  \/ \E r \in Runs, m \in 0 .. MaxRetriesBound : Start(r, m)
  \/ \E r \in Runs, outcome \in {"ok", "fail"} : Settle(r, outcome)
  \/ \E r \in Runs : TimerFire(r)

\* ===================================================================== gt()
\* largest number of dot-separated segments of a version string drawn as an
\* input
MaxSegs == 2
\* largest len argument of gt
MaxLen == 3

\* the segments the input strings are made of: empty, digits (one and two of
\* them), and a segment that is no number
Segments == { << >>, << "0" >>, << "1" >>, << "9" >>, << "1", "0" >>, << "x" >> }

\* the strings of 1 .. n segments of segs joined by dots
RECURSIVE Dotted(_, _)
Dotted(segs, n) ==
  IF n = 1 THEN segs
  ELSE LET shorter == Dotted(segs, n - 1)
       IN shorter \cup {s \o << "." >> \o g : s \in shorter, g \in segs}

Strings == Dotted(Segments, MaxSegs)

\* an argument that was passed, and one that was left out (undefined)
Given(s) == [given |-> TRUE, str |-> s]
Absent == [given |-> FALSE, str |-> << >>]
Args == {Given(s) : s \in Strings} \cup {Absent}

\* JavaScript numbers: NaN, or an integer
NaN == [nan |-> TRUE, val |-> 0]
Num(n) == [nan |-> FALSE, val |-> n]

Digits == {"0", "1", "2", "3", "4", "5", "6", "7", "8", "9"}
DigitVal(c) ==
  CASE c = "0" -> 0 [] c = "1" -> 1 [] c = "2" -> 2 [] c = "3" -> 3
    [] c = "4" -> 4 [] c = "5" -> 5 [] c = "6" -> 6 [] c = "7" -> 7
    [] c = "8" -> 8 [] c = "9" -> 9

\* value of a non-empty run of decimal digits, read left to right
RECURSIVE Decimal(_, _, _)
Decimal(s, i, acc) ==
  IF i > Len(s) THEN acc ELSE Decimal(s, i + 1, 10 * acc + DigitVal(s[i]))

AllDigits(s) == \A i \in 1 .. Len(s) : s[i] \in Digits

\* (mutant) Number(seg) || 0: a segment that is no number counts as 0
ToNumberOrZero(seg) ==
  IF seg = << >> THEN Num(0)
  ELSE IF AllDigits(seg) THEN Num(Decimal(seg, 1, 0))
  ELSE IF seg[1] = "-" /\ Len(seg) >= 2 /\ AllDigits(Tail(seg))
    THEN Num(0 - Decimal(Tail(seg), 1, 0))
  ELSE Num(0)

\* Number(seg) for strings of digits, "-" and "x": the empty string is 0, a run of
\* digits is its decimal value, a minus sign before a run of digits negates
\* it, anything else is NaN.
ToNumber(seg) ==
  IF seg = << >> THEN Num(0)
  ELSE IF AllDigits(seg) THEN Num(Decimal(seg, 1, 0))
  ELSE IF seg[1] = "-" /\ Len(seg) >= 2 /\ AllDigits(Tail(seg))
    THEN Num(0 - Decimal(Tail(seg), 1, 0))
  ELSE NaN

\* v.split("."): the segments between the dots; always at least one
RECURSIVE SplitFrom(_, _, _, _)
SplitFrom(s, i, cur, acc) ==
  IF i > Len(s) THEN Append(acc, cur)
  ELSE IF s[i] = "." THEN SplitFrom(s, i + 1, << >>, Append(acc, cur))
  ELSE SplitFrom(s, i + 1, Append(cur, s[i]), acc)

Split(s) == SplitFrom(s, 1, << >>, << >>)

\* v.split(".").map(Number).concat(Array(len).fill(0)).slice(0, len)
pad(v, len) ==
  LET segs == Split(v)
      nums == [i \in 1 .. Len(segs) |-> ToNumber(segs[i])]
      zeros == [i \in 1 .. len |-> Num(0)]
  IN SubSeq(nums \o zeros, 1, len)

\* x !== y and x > y on numbers
StrictNotEqual(x, y) == x.nan \/ y.nan \/ x.val # y.val
Greater(x, y) == ~x.nan /\ ~y.nan /\ x.val > y.val

\* (mutant) the loop returns a[i] > b[i] at the first index, without the
\* test a[i] !== b[i]
RECURSIVE gtLoopNoTest(_, _, _, _)
gtLoopNoTest(a, b, i, len) ==
  IF i > len THEN FALSE ELSE Greater(a[i], b[i])

\* (mutant) the loop falls through to `return true`
RECURSIVE gtLoopOrEqual(_, _, _, _)
gtLoopOrEqual(a, b, i, len) ==
  IF i > len THEN TRUE
  ELSE IF StrictNotEqual(a[i], b[i]) THEN Greater(a[i], b[i])
  ELSE gtLoopOrEqual(a, b, i + 1, len)

\* for (let i = 0; i < len; i++) { if (a[i] !== b[i]) return a[i] > b[i]; }
\* return false;   (i counts from 1 here)
RECURSIVE gtLoop(_, _, _, _)
gtLoop(a, b, i, len) ==
  IF i > len THEN FALSE
  ELSE IF StrictNotEqual(a[i], b[i]) THEN Greater(a[i], b[i])
  ELSE gtLoop(a, b, i + 1, len)

\* the default "0.0.0" of v1 and v2, and the default 3 of len
DefaultVersion == << "0", ".", "0", ".", "0" >>
DefaultLen == 3
OrDefault(arg) == IF arg.given THEN arg.str ELSE DefaultVersion

gt(v1, v2, len) ==
  gtLoop(pad(OrDefault(v1), len), pad(OrDefault(v2), len), 1, len)

\* gt is not being evaluated (the other specifications)
GtIdle ==
  /\ gpc = "idle"
  /\ gv1 = Absent
  /\ gv2 = Absent
  /\ glen = 0
  /\ gres = FALSE

\* the arguments of one call of gt, drawn from the bounded inputs
InitGt ==
  /\ gpc = "idle"
  /\ gv1 \in Args
  /\ gv2 \in Args
  /\ glen \in 0 .. MaxLen
  /\ gres = FALSE

\* the caller evaluates gt(v1, v2, len)
CallGt ==
  /\ gpc = "idle"
  /\ gpc' = "done"
  /\ gres' = gt(gv1, gv2, glen)
  /\ UNCHANGED << gv1, gv2, glen >>
  /\ UNCHANGED << loadVars, verVars, branchVars >>

NextGt == CallGt

\* ============================== getNpmLatestVersion() and checkVersion()
NPM_URL == "https://registry.npmjs.org/"

\* package names looked up
Names == {"action-cli", "left-pad"}

\* version strings of the registry and of the caller: those of gt and
\* segments with a sign
SignedSegments == Segments \cup { << "-", "1" >> }
VersionStrings == Dotted(SignedSegments, MaxSegs)

\* what the registry request ends with: no response, a response with a status
\* outside 2xx, or a 2xx response whose body has no "dist-tags", has
\* "dist-tags" without "latest", has a number as "latest", or has a string
Reply(kind, latest) == [kind |-> kind, latest |-> latest]
Replies ==
  {Reply(k, << >>) :
     k \in {"network_error", "non_2xx", "no_dist_tags", "no_latest",
            "latest_number"}}
    \cup {Reply("ok", s) : s \in VersionStrings}

\* JavaScript values of the variable `version` / `latestVersion`
JsUndefined == [type |-> "undefined", str |-> << >>]
JsNumber == [type |-> "number", str |-> << >>]
JsString(s) == [type |-> "string", str |-> s]

\* checkVersion is not being evaluated (the other specifications)
VerIdle ==
  /\ vpc = "idle"
  /\ pkgName = "action-cli"
  /\ version = << >>
  /\ reply = Reply("network_error", << >>)
  /\ requests = << >>
  /\ warned = 0
  /\ lookup = "none"
  /\ latestVersion = JsUndefined
  /\ advisory = 0
  /\ vpromise = "none"

\* the arguments of one call of checkVersion and the answer of the registry
InitVer ==
  /\ vpc = "idle"
  /\ pkgName \in Names
  /\ version \in VersionStrings
  /\ reply \in Replies
  /\ requests = << >>
  /\ warned = 0
  /\ lookup = "none"
  /\ latestVersion = JsUndefined
  /\ advisory = 0
  /\ vpromise = "none"

\* checkVersion(name, version) calls getNpmLatestVersion(name), which issues
\* axios.get(`${NPM_URL}${name}`) and suspends.
CheckVersionStart ==
  /\ vpc = "idle"
  /\ vpc' = "await_get"
  /\ vpromise' = "pending"
  /\ lookup' = "pending"
  /\ requests' = Append(requests, << NPM_URL, pkgName >>)
  /\ UNCHANGED << pkgName, version, reply, warned, latestVersion, advisory >>
  /\ UNCHANGED << loadVars, gtVars, branchVars >>

\* the try block throws: axios.get rejected (no response, or a status outside
\* 2xx), or reading .latest of an undefined "dist-tags" raised a TypeError
TryThrows(r) == r.kind \in {"network_error", "non_2xx", "no_dist_tags"}

\* the value assigned to `version` when the try block completes
LatestOf(r) ==
  CASE r.kind = "ok" -> JsString(r.latest)
    [] r.kind = "latest_number" -> JsNumber
    [] OTHER -> JsUndefined

\* The request settles and getNpmLatestVersion resumes: try { version = ... }
\* catch { console.warn(...) }; return version.
GetSettle ==
  /\ vpc = "await_get"
  /\ vpc' = "got"
  /\ IF TryThrows(reply)
       THEN warned' = warned + 1 /\ latestVersion' = JsUndefined
       ELSE warned' = warned /\ latestVersion' = LatestOf(reply)
  /\ lookup' = "resolved"
  /\ UNCHANGED << pkgName, version, reply, requests, advisory, vpromise >>
  /\ UNCHANGED << loadVars, gtVars, branchVars >>

\* gt(latestVersion, version) raises a TypeError: v.split is not a function
GtThrows(v) == v.type = "number"

\* the argument v1 of gt: undefined takes the default
ArgOf(v) == IF v.type = "string" THEN Given(v.str) ELSE Absent

\* checkVersion resumes: needUpdate = gt(latestVersion, version); the two
\* lines of the advisory are printed if needUpdate.
CheckResume ==
  /\ vpc = "got"
  /\ vpc' = "done"
  /\ IF GtThrows(latestVersion)
       THEN vpromise' = "rejected" /\ advisory' = advisory
       ELSE /\ vpromise' = "resolved"
            /\ advisory' =
                 IF gt(ArgOf(latestVersion), Given(version), DefaultLen)
                   THEN advisory + 1 ELSE advisory
  /\ UNCHANGED << pkgName, version, reply, requests, warned, lookup,
                  latestVersion >>
  /\ UNCHANGED << loadVars, gtVars, branchVars >>

NextVer == CheckVersionStart \/ GetSettle \/ CheckResume

\* ======================================================= getDefaultBranch()
GiteeDomain == << "g", "i", "t", "e", "e", ".", "c", "o", "m" >>

\* the repository URLs drawn as inputs: a scheme or user prefix, a host and
\* the rest (path, query)
UrlPrefixes == { << "h", "t", "t", "p", "s", ":", "/", "/" >>, << "g", "i", "t", "@" >> }
UrlHosts == { GiteeDomain, << "g", "i", "t", "h", "u", "b", ".", "c", "o", "m" >>, << "m", "y", "g", "i", "t", "e", "e", ".", "c", "o", "m" >>, << "g", "i", "t", "e", "e", ".", "c", "o", "m", ".", "c", "n" >> }
UrlRests == { << >>, << "/", "a", "/", "b", ".", "g", "i", "t" >>, << ":", "a", "/", "b", ".", "g", "i", "t" >>, << "/", "g", "i", "t", "e", "e", ".", "c", "o", "m", "/", "b" >>, << "/", "a", "?", "m", "=", "g", "i", "t", "e", "e", ".", "c", "o", "m" >> }
Urls == {p \o h \o t : p \in UrlPrefixes, h \in UrlHosts, t \in UrlRests}

\* branch names passed as defBranch, and the argument left out
BranchGiven(b) == [given |-> TRUE, name |-> b]
BranchAbsent == [given |-> FALSE, name |-> ""]
BranchArgs == {BranchGiven(b) : b \in {"main", "master", "dev"}} \cup {BranchAbsent}

\* url.includes(needle): needle occurs in url at some position
Includes(url, needle) ==
  \E i \in 0 .. Len(url) - Len(needle) :
    SubSeq(url, i + 1, i + Len(needle)) = needle

\* defBranch = "main"
DefaultBranch == "main"

\* return url.includes("gitee.com") ? "master" : defBranch
getDefaultBranch(url, defBranch) ==
  IF Includes(url, GiteeDomain) THEN "master"
  ELSE IF defBranch.given THEN defBranch.name ELSE DefaultBranch

\* getDefaultBranch is not being evaluated (the other specifications)
BranchIdle ==
  /\ bpc = "idle"
  /\ burl = << >>
  /\ bdef = BranchAbsent
  /\ bres = ""

\* the arguments of one call of getDefaultBranch
InitBranch ==
  /\ bpc = "idle"
  /\ burl \in Urls
  /\ bdef \in BranchArgs
  /\ bres = ""

\* the caller evaluates getDefaultBranch(url, defBranch)
CallBranch ==
  /\ bpc = "idle"
  /\ bpc' = "done"
  /\ bres' = getDefaultBranch(burl, bdef)
  /\ UNCHANGED << burl, bdef >>
  /\ UNCHANGED << loadVars, gtVars, verVars >>

NextBranch == CallBranch

\* ======================================================== specifications
Init == InitLoading /\ GtIdle /\ VerIdle /\ BranchIdle

Next == NextLoading

\* runs of loading()
Spec == Init /\ [][Next]_vars

\* runs of loading() in which every pending callback eventually settles and
\* every retryDelay timer eventually fires
Fairness ==
  \A r \in Runs :
    /\ WF_vars(\E outcome \in {"ok", "fail"} : Settle(r, outcome))
    /\ WF_vars(TimerFire(r))

SpecLive == Init /\ [][Next]_vars /\ Fairness

\* one evaluation of gt
GtInit == InitLoading /\ InitGt /\ VerIdle /\ BranchIdle

SpecGt == GtInit /\ [][NextGt]_vars

\* one call of checkVersion
VerInit == InitLoading /\ GtIdle /\ InitVer /\ BranchIdle

SpecVer == VerInit /\ [][NextVer]_vars

\* one call of getDefaultBranch
BranchInit == InitLoading /\ GtIdle /\ VerIdle /\ InitBranch

SpecBranch == BranchInit /\ [][NextBranch]_vars

\* ------------------------------------------------------- claims on loading()
\* every settled invocation of the callback of run r failed
AllFail(r) == \A i \in 1 .. Len(hist[r]) : hist[r][i] = "fail"

\* run r is the only run started so far
OnlyRun(r) == \A q \in Runs \ {r} : pc[q] = "idle"

\* C1: a single run whose callback fails on every invocation has invoked the
\* callback exactly maxRetries + 1 times when it returns, and returns
\* undefined.
C1_AlwaysFailingAttempts ==
  \A r \in Runs :
    (pc[r] = "done" /\ OnlyRun(r) /\ AllFail(r))
      => (calls[r] = maxRetries[r] + 1 /\ result[r] = Undefined)

\* C2: two runs in flight at the same time, each with maxRetries = 1 and an
\* always-failing callback: neither makes more than 2 attempts and each has
\* made exactly 2 when it terminates.
C2_ConcurrentIndependent ==
  \A r \in Runs : \A q \in Runs \ {r} :
    ( /\ q \in peers[r]
      /\ maxRetries[r] = 1 /\ maxRetries[q] = 1
      /\ AllFail(r) /\ AllFail(q)
      /\ \A o \in Runs \ {r, q} : pc[o] = "idle" )
      => (calls[r] <= 2 /\ (pc[r] = "done" => calls[r] = 2))

\* The run loading() makes in a fresh process (counter rc starting at 0) with
\* maxRetries = m ends exactly at the last outcome of h.
RECURSIVE FreshComplete(_, _, _, _)
FreshComplete(m, h, i, rc) ==
  IF i > Len(h) THEN FALSE
  ELSE IF h[i] = "ok" THEN i = Len(h)
  ELSE IF rc <= m THEN FreshComplete(m, h, i + 1, rc + 1)
  ELSE i = Len(h)

\* no two runs were ever in flight together: the runs so far were executed
\* one after another
Sequential == \A q \in Runs : peers[q] = {}

\* C3: when runs are executed one after another, the attempts of a finished
\* run are those the same run (same maxRetries, same callback outcomes) makes
\* as the first run of a fresh process, whatever ran before it.
C3_BudgetPerRun ==
  \A r \in Runs :
    (pc[r] = "done" /\ Sequential)
      => FreshComplete(maxRetries[r], hist[r], 1, 0)

\* C4: a run with maxRetries >= 1 whose callback fails on its first
\* invocation and succeeds on its second returns the value of the second
\* invocation after exactly 2 invocations.
C4_FailOnceThenSucceed ==
  \A r \in Runs :
    ( /\ pc[r] = "done"
      /\ maxRetries[r] >= 1
      /\ hist[r][1] = "fail"
      /\ (Len(hist[r]) >= 2 => hist[r][2] = "ok") )
      => (calls[r] = 2 /\ result[r] = ValueOf(2))

\* C5: the promise of loading() is never rejected; a run that has returned
\* has resolved, and one that returned after a failed last attempt resolved
\* with undefined.
C5_NeverRejects ==
  \A r \in Runs :
    /\ promise[r] # "rejected"
    /\ pc[r] = "done" => promise[r] = "resolved"
    /\ (pc[r] = "done" /\ hist[r][Len(hist[r])] = "fail")
         => result[r] = Undefined

C5_Witness ==
  \E r \in Runs :
    /\ pc[r] = "done" /\ Len(hist[r]) >= 2 /\ AllFail(r)
    /\ promise[r] = "resolved" /\ result[r] = Undefined

\* C6: within one chain at most one invocation of the callback is in flight,
\* none while a retry timer is pending, and attempt n + 1 is made only after
\* n invocations have settled and n retry timers have fired.
C6_Sequential ==
  \A r \in Runs :
    /\ inflight[r] <= 1
    /\ inflight[r] = 1 => timers[r] = 0
    /\ calls[r] >= 1 =>
         (Len(hist[r]) >= calls[r] - 1 /\ fired[r] >= calls[r] - 1)

C6_Witness ==
  \E r \in Runs : calls[r] >= 3 /\ inflight[r] = 1 /\ fired[r] = 2

\* C12: when an attempt of run r fails, the run retries (counter incremented,
\* spinner marked with the retrying message, timer set) if and only if the
\* retries this run has already made are <= maxRetries; otherwise it marks
\* the spinner with failureText and returns undefined.
FailStep(r) == hist'[r] = Append(hist[r], "fail")

C12_RetryIffOwnBudget ==
  [][\A r \in Runs :
       FailStep(r) =>
         IF fired[r] <= maxRetries[r]
           THEN /\ retryCount' = retryCount + 1
                /\ spinner'[r][handle[r]].text = RetryText
                /\ timers'[r] = timers[r] + 1
                /\ pc'[r] = "await_timer"
                /\ maxRetries'[r] = maxRetries[r]
           ELSE /\ spinner'[r][handle[r]].text = FailureText
                /\ result'[r] = Undefined
                /\ pc'[r] = "done"]_vars

\* C13: the step in which an attempt of run r succeeds marks its spinner
\* with okText, returns the result of that attempt, invokes nothing, sets no
\* timer and leaves retryCount unchanged; a run that has returned makes no
\* further invocation and sets no further timer.
SuccessStep(r) == hist'[r] = Append(hist[r], "ok")

C13_SuccessTerminal ==
  [][\A r \in Runs :
       /\ SuccessStep(r) =>
            /\ pc'[r] = "done"
            /\ spinner'[r][handle[r]].text = OkText
            /\ result'[r] = ValueOf(calls[r])
            /\ promise'[r] = "resolved"
            /\ calls'[r] = calls[r]
            /\ inflight'[r] = 0
            /\ timers'[r] = 0
            /\ retryCount' = retryCount
       /\ pc[r] = "done" =>
            /\ pc'[r] = "done"
            /\ calls'[r] = calls[r]
            /\ inflight'[r] = 0
            /\ timers'[r] = 0
            /\ result'[r] = result[r]]_vars

C13_Witness ==
  \E r \in Runs :
    /\ pc[r] = "done" /\ result[r] = ValueOf(2) /\ retryCount >= 1
    /\ \E q \in Runs \ {r} : pc[q] = "await_cb" /\ calls[q] >= 2

\* C14: every attempt of every run has a spinner of its own; a spinner is
\* marked at most once, by the attempt that started it, and an unmarked
\* spinner is the one of an attempt whose callback is still pending.
SpinnerOf(r, n) ==
  {i \in DOMAIN spinner[r] : spinner[r][i].attempt = n}

C14_IndicatorOwnership ==
  \A r \in Runs :
    /\ \A i \in DOMAIN spinner[r] :
         /\ spinner[r][i].run = r
         /\ spinner[r][i].attempt <= calls[r]
         /\ Len(spinner[r][i].by) <= 1
         /\ \A k \in DOMAIN spinner[r][i].by :
              spinner[r][i].by[k] = << r, spinner[r][i].attempt >>
         /\ (spinner[r][i].text = Spinning) <=> (spinner[r][i].by = << >>)
         /\ spinner[r][i].by = << >> => handle[r] = i /\ pc[r] = "await_cb"
    /\ \A n \in 1 .. calls[r] : Cardinality(SpinnerOf(r, n)) = 1
    /\ calls[r] >= 1 => handle[r] \in SpinnerOf(r, calls[r])

\* two runs that were in flight together, each with two spinners or more, all
\* of them marked
C14_Witness ==
  \E r \in Runs, q \in Runs :
    /\ r # q /\ q \in peers[r]
    /\ \A p \in {r, q} :
         /\ Len(spinner[p]) >= 2
         /\ \A i \in DOMAIN spinner[p] : Len(spinner[p][i].by) = 1

\* C17: under the fairness of SpecLive every started run eventually returns.
C17_EveryRunReturns ==
  \A r \in Runs : (pc[r] # "idle") ~> (pc[r] = "done")

C17_Witness ==
  /\ \A r \in Runs : pc[r] = "done"
  /\ \E r \in Runs : Len(hist[r]) >= 3 /\ AllFail(r)

\* the largest maxRetries of any run started so far (0 before the first)
MaxStarted ==
  LET S == {maxRetries[r] : r \in {q \in Runs : pc[q] # "idle"}} \cup {0}
  IN CHOOSE m \in S : \A n \in S : n <= m

RECURSIVE SumOver(_, _)
SumOver(f, S) ==
  IF S = {} THEN 0
  ELSE LET x == CHOOSE y \in S : TRUE IN f[x] + SumOver(f, S \ {x})

\* C18: retryCount never decreases and is at most MaxStarted + 1; the retry
\* re-invocations of all runs together are at most MaxStarted + 1.
C18_CounterMonotoneBounded ==
  /\ [](/\ retryCount <= MaxStarted + 1
        /\ SumOver(fired, Runs) + SumOver(timers, Runs) = retryCount
        /\ SumOver(fired, Runs) <= MaxStarted + 1)
  /\ [][retryCount' >= retryCount]_vars

C18_Witness ==
  /\ retryCount = MaxStarted + 1
  /\ SumOver(fired, Runs) = MaxStarted + 1
  /\ \A r \in Runs : fired[r] >= 1

\* ------------------------------------------------------------ claims on gt()
\* positions of the dots of s, and the number of its segments
DotsOf(s) == {i \in 1 .. Len(s) : s[i] = "."}
NumSegments(s) == Cardinality(DotsOf(s)) + 1

\* first and last position of the k-th segment of s
SegStart(s, k) ==
  IF k = 1 THEN 1
  ELSE 1 + CHOOSE d \in DotsOf(s) :
             Cardinality({e \in DotsOf(s) : e <= d}) = k - 1
SegEnd(s, k) ==
  IF k = NumSegments(s) THEN Len(s)
  ELSE (CHOOSE d \in DotsOf(s) :
          Cardinality({e \in DotsOf(s) : e <= d}) = k) - 1

RECURSIVE Pow10(_)
Pow10(n) == IF n = 0 THEN 1 ELSE 10 * Pow10(n - 1)

\* the integer a segment of digits denotes, as a sum of weighted digits
IntOf(s, lo, hi) ==
  LET D == lo .. hi
      RECURSIVE Sum(_)
      Sum(S) == IF S = {} THEN 0
                ELSE LET i == CHOOSE x \in S : TRUE
                     IN DigitVal(s[i]) * Pow10(hi - i) + Sum(S \ {i})
  IN Sum(D)

\* s is a dotted version string: non-empty segments of decimal digits
IsVersion(s) ==
  /\ Len(s) >= 1
  /\ \A i \in 1 .. Len(s) : s[i] \in Digits \cup {"."}
  /\ \A k \in 1 .. NumSegments(s) : SegStart(s, k) <= SegEnd(s, k)

\* the tuple of exactly len integers of a dotted version string
TupleOf(s, len) ==
  [k \in 1 .. len |->
     IF k <= NumSegments(s) THEN IntOf(s, SegStart(s, k), SegEnd(s, k)) ELSE 0]

\* strict lexicographic order of two tuples of len integers
LexGreater(a, b, len) ==
  \E i \in 1 .. len : a[i] > b[i] /\ \A j \in 1 .. i - 1 : a[j] = b[j]

\* C7: on dotted version strings of non-negative integer segments, gt is the
\* strict lexicographic order, most significant component first, of the two
\* tuples of exactly len integers (split on ".", padded with zeros,
\* truncated); the components are compared as numbers.
C7_GtIsLexicographic ==
  (gpc = "done" /\ gv1.given /\ gv2.given
     /\ IsVersion(gv1.str) /\ IsVersion(gv2.str))
    => (gres = LexGreater(TupleOf(gv1.str, glen), TupleOf(gv2.str, glen), glen))

C7_Witness ==
  /\ gpc = "done"
  /\ gv1 = Given(<< "1", "0" >>)
  /\ gv2 = Given(<< "9", ".", "1" >>)
  /\ glen = 1
  /\ gres = TRUE

\* C8: gt(a, a) is false for every string a, and gt is false whenever the
\* padded tuples of its two arguments are equal.
C8_GtIrreflexive ==
  (gpc = "done"
     /\ (gv1 = gv2 \/ pad(OrDefault(gv1), glen) = pad(OrDefault(gv2), glen)))
    => (gres = FALSE)

C8_Witness ==
  /\ gpc = "done"
  /\ gv1 = Given(<< "1" >>)
  /\ gv2 = Given(<< "1", ".", "0" >>)
  /\ glen = 3
  /\ gres = FALSE

\* --------------------------------------------- claims on the version lookup
\* the request failed, or the body has no dist-tags.latest to read
LookupFailed(r) ==
  r.kind \in {"network_error", "non_2xx", "no_dist_tags", "no_latest"}

\* C9: getNpmLatestVersion never rejects and issues exactly one request; when
\* the request fails or the body has no dist-tags.latest it has logged a
\* warning and resolves with undefined.
C9_LookupNeverThrows ==
  vpc \in {"got", "done"} =>
    /\ lookup = "resolved"
    /\ requests = << << NPM_URL, pkgName >> >>
    /\ LookupFailed(reply) => (warned = 1 /\ latestVersion = JsUndefined)

\* C10: checkVersion prints no advisory when getNpmLatestVersion returned
\* undefined, whatever the current version, and none when the latest version
\* is not greater than the current version.
C10_NoAdvisory ==
  vpc = "done" =>
    /\ latestVersion = JsUndefined => advisory = 0
    /\ (latestVersion.type = "string"
          /\ ~gt(Given(latestVersion.str), Given(version), DefaultLen))
         => advisory = 0

\* C11: the promise of checkVersion is never rejected, whatever the registry
\* answers and whatever the current version is: once checkVersion has run to
\* its end, the promise is resolved.
C11_CheckVersionNeverRejects ==
  /\ vpromise # "rejected"
  /\ vpc = "done" => vpromise = "resolved"

\* ------------------------------------------- unparsable segments in gt()
\* the k-th segment of s
SegmentOf(s, k) == SubSeq(s, SegStart(s, k), SegEnd(s, k))

\* a segment that is not empty and not a decimal integer, signed or not
Unparsable(seg) ==
  /\ seg # << >>
  /\ ~AllDigits(seg)
  /\ ~(seg[1] = "-" /\ Len(seg) >= 2 /\ AllDigits(Tail(seg)))

RECURSIVE JoinFrom(_, _)
JoinFrom(segs, k) ==
  IF k = Len(segs) THEN segs[k]
  ELSE segs[k] \o << "." >> \o JoinFrom(segs, k + 1)

\* s with every unparsable segment replaced by "0"
Zeroed(s) ==
  JoinFrom([k \in 1 .. NumSegments(s) |->
              IF Unparsable(SegmentOf(s, k)) THEN << "0" >>
              ELSE SegmentOf(s, k)], 1)

ZeroedArg(arg) ==
  IF arg.given THEN Given(Zeroed(arg.str)) ELSE Given(DefaultVersion)

\* C15 as stated: an unparsable segment counts as 0, like a missing one:
\* replacing every unparsable segment by "0", and an absent input by "0.0.0",
\* does not change the result of gt.
C15_UnparsableCountsAsZero ==
  gpc = "done" => gres = gt(ZeroedArg(gv1), ZeroedArg(gv2), glen)

\* the component gt compares at position k: the k-th segment, "0" if missing
Component(arg, k) ==
  LET s == OrDefault(arg)
  IN IF k <= NumSegments(s) THEN SegmentOf(s, k) ELSE << "0" >>

\* both components at position k are numbers, and the same number
SameNumber(k) ==
  /\ ~Unparsable(Component(gv1, k))
  /\ ~Unparsable(Component(gv2, k))
  /\ ToNumber(Component(gv1, k)).val = ToNumber(Component(gv2, k)).val

\* C15 as amended: a missing or empty segment counts as 0 and an absent
\* input is compared as "0.0.0", but an unparsable segment is NaN: at the
\* first position where the two components are not the same number, gt is
\* false if either is unparsable and is a[i] > b[i] otherwise; gt is false
\* if there is no such position among the first len.
C15_UnparsableIsNaN ==
  gpc = "done" =>
    /\ \A i \in 1 .. glen :
         (\A j \in 1 .. i - 1 : SameNumber(j)) =>
           /\ (Unparsable(Component(gv1, i)) \/ Unparsable(Component(gv2, i)))
                => gres = FALSE
           /\ (~Unparsable(Component(gv1, i)) /\ ~Unparsable(Component(gv2, i))
                 /\ ~SameNumber(i))
                => gres = (ToNumber(Component(gv1, i)).val
                             > ToNumber(Component(gv2, i)).val)
    /\ (\A j \in 1 .. glen : SameNumber(j)) => gres = FALSE

\* gt("x.1", "0") is false, where gt("0.1", "0") is true
C15_Witness ==
  /\ gpc = "done"
  /\ gv1 = Given(<< "x", ".", "1" >>)
  /\ gv2 = Given(<< "0" >>)
  /\ glen = 2
  /\ gres = FALSE
  /\ gt(ZeroedArg(gv1), ZeroedArg(gv2), glen)

\* ------------------------------------------------- claims on getDefaultBranch
\* position of the first occurrence of needle in url at or after from, 0 if none
FirstAt(url, needle, from) ==
  LET P == {i \in from .. Len(url) - Len(needle) + 1 :
              SubSeq(url, i, i + Len(needle) - 1) = needle}
  IN IF P = {} THEN 0 ELSE CHOOSE i \in P : \A j \in P : i <= j

\* the host of a URL: what follows "://" or "user@", up to the first of
\* "/", ":", "?" and "#"
HostOf(url) ==
  LET scheme == FirstAt(url, << ":", "/", "/" >>, 1)
      user == FirstAt(url, << "@" >>, 1)
      start == IF scheme > 0 THEN scheme + 3
               ELSE IF user > 0 THEN user + 1 ELSE 1
      E == {i \in start .. Len(url) : url[i] \in {"/", ":", "?", "#"}}
      end == IF E = {} THEN Len(url)
             ELSE (CHOOSE i \in E : \A j \in E : i <= j) - 1
  IN SubSeq(url, start, end)

\* C16: getDefaultBranch returns "master" when the host of the URL is
\* gitee.com and returns defBranch ("main" when left out) for every URL
\* hosted elsewhere, also when its path or query contains gitee.com.
C16_MasterIffGiteeHost ==
  bpc = "done" =>
    IF HostOf(burl) = GiteeDomain THEN bres = "master"
    ELSE bres = (IF bdef.given THEN bdef.name ELSE DefaultBranch)

====
